---- MODULE Spec2Model ----
(***************************************************************************)
(* fastapi-limiter: fixed-window rate limiting of FastAPI handlers against *)
(* a shared Redis store.                                                   *)
(*                                                                         *)
(* The model covers fastapi_limiter/__init__.py (the two Lua scripts, the  *)
(* class-level configuration, the refund helper, the default identifier)   *)
(* and fastapi_limiter/depends.py (RateLimiter and WebSocketRateLimiter).  *)
(* Redis is modelled by what the scripts use of it: a keyspace of integer  *)
(* counters with a time-to-live in milliseconds, a script cache addressed  *)
(* by SHA, and commands that run one at a time.                            *)
(***************************************************************************)
EXTENDS Integers, Sequences, FiniteSets, TLC

VARIABLES
    routes,              \* request.app.routes: the application's route table
    clients,             \* the requests and socket messages clients may send
    limiter,             \* the class attributes of FastAPILimiter
    refund_script_sha,   \* the module global _refund_script_sha
    store,               \* the Redis keyspace: key -> [count, ttl]
    scriptCache,         \* the SHAs of the scripts Redis holds
    procs,               \* the handlers in flight, one per worker
    last,                \* the handler that finished last, as it finished
    hist,                \* per key, the script runs since its record was created
    lapsed,              \* per key, the count its last expired record had
    ops,                 \* handlers the clients may still start
    faults,              \* store commands that may still fail
    flushes,             \* script cache flushes that may still happen
    lifespan,            \* the arguments the application passes to init()
    connected            \* the sockets whose endpoint is in its message loop

vars == <<lifespan, routes, clients, limiter, refund_script_sha, store,
          scriptCache, procs, last, hist, lapsed, ops, faults, flushes,
          connected>>

----------------------------------------------------------------------------
(* Bounds of the exploration.                                              *)

MaxLimit == 2       \* quotas have times in 0..MaxLimit
MaxWindow == 2      \* quotas have milliseconds in 0..MaxWindow
MaxOps == 5         \* handlers started in one behaviour of SpecQuota
MaxDemoOps == 3     \* handlers started in one behaviour of Spec
MaxFaults == 1      \* store commands that fail in one behaviour
MaxFlushes == 1     \* script cache flushes in one behaviour
MaxSeconds == 1     \* the long windows are within a millisecond of 0..MaxSeconds s
MaxRetryOps == 1    \* handlers started in one behaviour of SpecRetry

Workers == {"w1", "w2"}

None == "None"
Err == 0 - 1        \* the reply recorded for a script run that Redis aborted

----------------------------------------------------------------------------
(* Small helpers over Python values.                                       *)

\* dict.get(name, default) on a mapping held as a set of <<name, value>>.
Get(mapping, name, default) ==
    IF \E kv \in mapping : kv[1] = name
    THEN (CHOOSE kv \in mapping : kv[1] = name)[2]
    ELSE default

\* hashlib.sha256(value.encode()).hexdigest(): a digest, never the value.
Sha256(value) == "sha256(" \o value \o ")"

hash_password(password) == Sha256(password)

hash_input(value) == Sha256(value)

\* The SHA1 under which Redis caches a script (SCRIPT LOAD's reply).
ScriptSha(script) == "sha1(" \o script \o ")"

lua_script == "lua_script"

refund_script == "_refund_script"

----------------------------------------------------------------------------
(* The two Lua scripts, each run by Redis as one command.  A script takes  *)
(* the keyspace and returns [ret, store]: its reply (Err for a Redis       *)
(* error, which aborts the script with nothing written) and the keyspace   *)
(* it leaves.                                                              *)

\* redis.call('get', key) or "0"
RedisGet(db, key) == IF key \in DOMAIN db THEN db[key].count ELSE 0

\* The keyspace with key bound to rec.
RedisPut(db, key, rec) ==
    [k \in DOMAIN db \cup {key} |-> IF k = key THEN rec ELSE db[k]]

\* lua_script with "current > limit" for "current + 1 > limit".
CheckScriptOffByOne(db, key, limit, expire_time) ==
    LET current == RedisGet(db, key) IN
    IF current > 0
    THEN IF current > limit
         THEN [ret |-> db[key].ttl, store |-> db]
         ELSE [ret |-> 0,
               store |-> [db EXCEPT ![key].count = current + 1]]
    ELSE IF expire_time > 0
         THEN [ret |-> 0,
               store |-> RedisPut(db, key, [count |-> 1, ttl |-> expire_time])]
         ELSE [ret |-> Err, store |-> db]

\* lua_script without its INCR.
CheckScriptNoIncr(db, key, limit, expire_time) ==
    LET current == RedisGet(db, key) IN
    IF current > 0
    THEN IF current + 1 > limit
         THEN [ret |-> db[key].ttl, store |-> db]
         ELSE [ret |-> 0, store |-> db]
    ELSE IF expire_time > 0
         THEN [ret |-> 0,
               store |-> RedisPut(db, key, [count |-> 1, ttl |-> expire_time])]
         ELSE [ret |-> Err, store |-> db]

\* lua_script reading ARGV[2] as the limit and ARGV[1] as the expiry.
CheckScriptSwappedArgs(db, key, limit, expire_time) ==
    LET current == RedisGet(db, key) IN
    IF current > 0
    THEN IF current + 1 > expire_time
         THEN [ret |-> db[key].ttl, store |-> db]
         ELSE [ret |-> 0,
               store |-> [db EXCEPT ![key].count = current + 1]]
    ELSE IF limit > 0
         THEN [ret |-> 0,
               store |-> RedisPut(db, key, [count |-> 1, ttl |-> limit])]
         ELSE [ret |-> Err, store |-> db]

\* lua_script comparing with the limit before it looks at the count: a
\* fresh window is refused too (PTTL of a missing key replies -2).
CheckScriptLimitFirst(db, key, limit, expire_time) ==
    LET current == RedisGet(db, key) IN
    IF current + 1 > limit
    THEN [ret |-> IF key \in DOMAIN db THEN db[key].ttl ELSE 0 - 2,
          store |-> db]
    ELSE IF current > 0
         THEN [ret |-> 0,
               store |-> [db EXCEPT ![key].count = current + 1]]
         ELSE IF expire_time > 0
              THEN [ret |-> 0,
                    store |-> RedisPut(db, key,
                                 [count |-> 1, ttl |-> expire_time])]
              ELSE [ret |-> Err, store |-> db]

\* lua_script with its INCR ahead of the comparison: a denied check is
\* counted too.
CheckScriptCountsDenied(db, key, limit, expire_time) ==
    LET current == RedisGet(db, key) IN
    IF current > 0
    THEN IF current + 1 > limit
         THEN [ret |-> db[key].ttl,
               store |-> [db EXCEPT ![key].count = current + 1]]
         ELSE [ret |-> 0,
               store |-> [db EXCEPT ![key].count = current + 1]]
    ELSE IF expire_time > 0
         THEN [ret |-> 0,
               store |-> RedisPut(db, key, [count |-> 1, ttl |-> expire_time])]
         ELSE [ret |-> Err, store |-> db]

\* lua_script with a sliding window: an admitting INCR renews the expiry.
CheckScriptSliding(db, key, limit, expire_time) ==
    LET current == RedisGet(db, key) IN
    IF current > 0
    THEN IF current + 1 > limit
         THEN [ret |-> db[key].ttl, store |-> db]
         ELSE [ret |-> 0,
               store |-> [db EXCEPT ![key] = [count |-> current + 1,
                                              ttl |-> expire_time]]]
    ELSE IF expire_time > 0
         THEN [ret |-> 0,
               store |-> RedisPut(db, key, [count |-> 1, ttl |-> expire_time])]
         ELSE [ret |-> Err, store |-> db]

\* FastAPILimiter.lua_script with KEYS[1] = key, ARGV = {limit, expire_time}.
\* SET key 1 px expire_time is an error unless expire_time > 0.
CheckScript(db, key, limit, expire_time) ==
    LET current == RedisGet(db, key) IN
    IF current > 0
    THEN IF current + 1 > limit
         THEN [ret |-> db[key].ttl, store |-> db]
         ELSE [ret |-> 0,
               store |-> [db EXCEPT ![key].count = current + 1]]
    ELSE IF expire_time > 0
         THEN [ret |-> 0,
               store |-> RedisPut(db, key, [count |-> 1, ttl |-> expire_time])]
         ELSE [ret |-> Err, store |-> db]

\* _refund_script without its DECR.
RefundScriptNoDecr(db, key) ==
    [ret |-> RedisGet(db, key), store |-> db]

\* _refund_script without "if current > 0": DECR of a missing key makes it.
RefundScriptUnguarded(db, key) ==
    LET current == RedisGet(db, key) IN
    [ret |-> current,
     store |-> RedisPut(db, key,
                  [count |-> current - 1,
                   ttl |-> IF key \in DOMAIN db THEN db[key].ttl ELSE 0])]

\* _refund_script with KEYS[1] = key.
RefundScript(db, key) ==
    LET current == RedisGet(db, key) IN
    IF current > 0
    THEN [ret |-> current, store |-> [db EXCEPT ![key].count = current - 1]]
    ELSE [ret |-> current, store |-> db]

\* One millisecond passes in Redis: every record's time-to-live drops by
\* one and a record whose time-to-live is used up is gone.
Expiring(db) == {k \in DOMAIN db : db[k].ttl = 1}

Elapse(db) ==
    [k \in DOMAIN db \ Expiring(db) |-> [db[k] EXCEPT !.ttl = db[k].ttl - 1]]

----------------------------------------------------------------------------
(* Requests, routes and limiter instances.                                 *)

\* A starlette Request (or WebSocket): the scope's path and method, the
\* peer address, the X-Forwarded-For entries (split at ","), the query
\* parameters and headers, and the authenticated user an application's own
\* identifier may read.
Request(path, method, host, forwarded, query, headers, user) ==
    [path |-> path, method |-> method, host |-> host, forwarded |-> forwarded,
     query |-> query, headers |-> headers, user |-> user]

NoRequest == Request("", "", "", <<>>, {}, {}, "")

\* RateLimiter.__init__: the window is the sum of the units.
RateLimiter(id, times, milliseconds, seconds, minutes, hours, identifier, enable_bypass) ==
    [class |-> "RateLimiter", id |-> id, times |-> times,
     milliseconds |-> milliseconds + 1000 * seconds + 60000 * minutes
                      + 3600000 * hours,
     identifier |-> identifier, enable_bypass |-> enable_bypass]

\* WebSocketRateLimiter(RateLimiter): the same fields, another class.
WebSocketRateLimiter(id, times, milliseconds, identifier) ==
    [RateLimiter(id, times, milliseconds, 0, 0, 0, identifier, FALSE)
        EXCEPT !.class = "WebSocketRateLimiter"]

\* A route dependency that is no RateLimiter.
OtherDependency(id) ==
    [RateLimiter(id, 0, 0, 0, 0, 0, None, FALSE) EXCEPT !.class = "Depends"]

NoLimiter == OtherDependency("")

Route(path, methods, dependencies) ==
    [path |-> path, methods |-> methods, dependencies |-> dependencies]

\* default_identifier: the first X-Forwarded-For entry, else the peer
\* address, joined to the path.
default_identifier(request) ==
    LET ip == IF request.forwarded # <<>>
              THEN Head(request.forwarded)
              ELSE request.host
    IN ip \o ":" \o request.path

\* An identifier an application passes instead: the authenticated user.
user_identifier(request) == request.user

\* await identifier(request) for the identifier callable named.
Identify(identifier, request) ==
    IF identifier = "default_identifier"
    THEN default_identifier(request)
    ELSE user_identifier(request)

\* math.floor in the place of math.ceil.
floor(a, b) == a \div b

\* math.ceil(a / b) for integers a and b > 0.
ceil(a, b) == 0 - ((0 - a) \div b)

\* What the default callbacks raise: HTTPException(429, "Too Many
\* Requests", headers={"Retry-After": str(expire)}).
HTTPException(status_code, detail, headers) ==
    [status_code |-> status_code, detail |-> detail, headers |-> headers]

NoException == HTTPException(0, "", {})

http_default_callback(request, pexpire) ==
    LET expire == ceil(pexpire, 1000)
    IN HTTPException(429, "Too Many Requests",
                     {<<"Retry-After", ToString(expire)>>})

ws_default_callback(ws, pexpire) ==
    LET expire == ceil(pexpire, 1000)
    IN HTTPException(429, "Too Many Requests",
                     {<<"Retry-After", ToString(expire)>>})

Range(seq) == {seq[i] : i \in 1..Len(seq)}

SetMax(S) == CHOOSE x \in S : \A y \in S : y <= x

SetMin(S) == CHOOSE x \in S : \A y \in S : x <= y

----------------------------------------------------------------------------
(* FastAPILimiter: the class attributes before and after init().           *)

\* The class body: the bypass attributes do not exist before init().
FastAPILimiterClass ==
    [redis |-> None, prefix |-> None, lua_sha |-> None, identifier |-> None,
     http_callback |-> None, ws_callback |-> None]

\* The keyword arguments of FastAPILimiter.init, with its defaults.
InitArgs(prefix, identifier, authorized_passwords, query_param_names, bearer_token_headers, api_key_headers) ==
    [prefix |-> prefix, identifier |-> identifier,
     authorized_passwords |-> authorized_passwords,
     query_param_names |-> query_param_names,
     bearer_token_headers |-> bearer_token_headers,
     api_key_headers |-> api_key_headers]

DefaultInitArgs ==
    InitArgs("fastapi-limiter", "default_identifier", <<>>, <<>>, <<>>, <<>>)

\* The attributes init() assigns; lua_sha is SCRIPT LOAD's reply.
Initialized(args) ==
    [redis |-> "redis", prefix |-> args.prefix, identifier |-> args.identifier,
     authorized_passwords |->
        [i \in 1..Len(args.authorized_passwords) |->
            hash_password(args.authorized_passwords[i])],
     query_param_names |-> args.query_param_names,
     bearer_token_headers |-> args.bearer_token_headers,
     api_key_headers |-> args.api_key_headers,
     http_callback |-> "http_default_callback",
     ws_callback |-> "ws_default_callback",
     lua_sha |-> ScriptSha(lua_script)]

----------------------------------------------------------------------------
(* RateLimiter.__call__ up to its first store command.                     *)

\* Some password of the authorized list equals the digest
\* (secrets.compare_digest over the list).
Authorized(digest) == digest \in Range(limiter.authorized_passwords)

QueryParamBypass(request) ==
    \E param \in Range(limiter.query_param_names) :
        Authorized(hash_input(Get(request.query, param, "")))

\* The header is looked up under its name followed by a blank.
BearerTokenBypass(request) ==
    \E header \in Range(limiter.bearer_token_headers) :
        Authorized(hash_input(Get(request.headers, header \o " ", "")))

ApiKeyBypass(request) ==
    \E header \in Range(limiter.api_key_headers) :
        Authorized(hash_input(Get(request.headers, header, "")))

\* The enable_bypass block: TRUE when __call__ returns from it.
Bypassed(self, request) ==
    /\ self.enable_bypass
    /\ \/ QueryParamBypass(request)
       \/ BearerTokenBypass(request)
       \/ ApiKeyBypass(request)

\* The routes the loops of __call__ and of the refund take for the
\* request's: route.path, as declared, equals the request's path, and the
\* method is one of the route's (1-based).
MatchingRoutes(request) ==
    {i \in 1..Len(routes) :
        /\ routes[i].path = request.path
        /\ request.method \in routes[i].methods}

\* The positions of the limiter instance among a route's dependencies.
PositionsOf(self, i) ==
    {j \in 1..Len(routes[i].dependencies) :
        routes[i].dependencies[j].id = self.id}

\* route_index after the loop of __call__: the last matching route, else 0.
CallRouteIndex(request) ==
    IF MatchingRoutes(request) = {} THEN 0
    ELSE SetMax(MatchingRoutes(request)) - 1

\* dep_index after the loop of __call__: the first position of self in the
\* last matching route that holds self, else 0.
CallDepIndex(self, request) ==
    LET holding == {i \in MatchingRoutes(request) : PositionsOf(self, i) # {}}
    IN IF holding = {} THEN 0
       ELSE SetMin(PositionsOf(self, SetMax(holding))) - 1

\* The key without its dep_index.
HttpKeyNoDepIndex(prefix, rate_key, route_index, dep_index) ==
    prefix \o ":" \o rate_key \o ":" \o ToString(route_index)

\* f"{prefix}:{rate_key}:{route_index}:{dep_index}"
HttpKey(prefix, rate_key, route_index, dep_index) ==
    prefix \o ":" \o rate_key \o ":" \o ToString(route_index)
           \o ":" \o ToString(dep_index)

\* The key RateLimiter.__call__ charges.
CallKey(self, request) ==
    LET identifier == IF self.identifier # None THEN self.identifier
                      ELSE limiter.identifier
    IN HttpKey(limiter.prefix, Identify(identifier, request),
               CallRouteIndex(request), CallDepIndex(self, request))

\* The socket key without its context_key.
WsKeyNoContext(self, ws, context_key) ==
    LET identifier == IF self.identifier # None THEN self.identifier
                      ELSE limiter.identifier
    IN limiter.prefix \o ":ws:" \o Identify(identifier, ws)

\* f"{prefix}:ws:{rate_key}:{context_key}"
WsKey(self, ws, context_key) ==
    LET identifier == IF self.identifier # None THEN self.identifier
                      ELSE limiter.identifier
    IN limiter.prefix \o ":ws:" \o Identify(identifier, ws) \o ":" \o context_key

\* The refund's keys with the fallback of __call__: route 0 when no route
\* is taken for the request's.
RefundKeysFallback(request) ==
    LET i == IF MatchingRoutes(request) = {} THEN 1
             ELSE SetMin(MatchingRoutes(request))
        deps == routes[i].dependencies
        js == {j \in 1..Len(deps) : deps[j].class = "RateLimiter"}
        nth[n \in 0..Cardinality(js)] ==
            IF n = 0 THEN 0
            ELSE SetMin({j \in js : j > nth[n - 1]})
    IN [n \in 1..Cardinality(js) |->
           HttpKey(limiter.prefix, Identify(limiter.identifier, request),
                   i - 1, nth[n] - 1)]

\* The keys refund_rate_limit_for_request decrements, in order: one per
\* RateLimiter dependency of the first matching route.
RefundKeys(request) ==
    IF MatchingRoutes(request) = {} THEN <<>>
    ELSE LET i == SetMin(MatchingRoutes(request))
             deps == routes[i].dependencies
             js == {j \in 1..Len(deps) : deps[j].class = "RateLimiter"}
             nth[n \in 0..Cardinality(js)] ==
                 IF n = 0 THEN 0
                 ELSE SetMin({j \in js : j > nth[n - 1]})
         IN [n \in 1..Cardinality(js) |->
                HttpKey(limiter.prefix,
                        Identify(limiter.identifier, request),
                        i - 1, nth[n] - 1)]

----------------------------------------------------------------------------
(* Handlers in flight.  A handler is suspended at each await of a store    *)
(* command; pc names the command it is about to issue, key the key of its  *)
(* last EVALSHA, evals and loads the EVALSHA and SCRIPT LOAD commands it   *)
(* has issued, caught the exception its except clause caught.              *)

Idle ==
    [pc |-> "idle", op |-> None, self |-> NoLimiter, request |-> NoRequest,
     context_key |-> "", key |-> None, todo |-> <<>>, outcome |-> None,
     pexpire |-> 0, raised |-> NoException, evals |-> 0, loads |-> 0,
     caught |-> None]

Free(w) == procs[w].pc = "idle" /\ ops > 0

Errors == {"Exception", "AttributeError", "NoScriptError", "ConnectionError",
           "ResponseError"}

\* The message loop of websocket_endpoint catches HTTPException, which is
\* what the denial callback raises; any other exception of the limiter
\* leaves the endpoint, and the server closes the socket.
Closes(proc) ==
    proc.pc = "done" /\ proc.op = "ws" /\ proc.outcome \in Errors

\* Worker w's handler goes on as proc, or has finished and w is free again.
Becomes(w, proc) ==
    /\ procs' = [procs EXCEPT ![w] = IF proc.pc = "done" THEN Idle ELSE proc]
    /\ last' = IF proc.pc = "done" THEN proc ELSE last
    /\ connected' = IF Closes(proc) THEN connected \ {proc.request}
                     ELSE connected

\* The handler returned or raised: outcome is "admit" (returned None),
\* "deny" (the callback ran with pexpire, and raised), "returned" (a
\* refund) or the name of the exception raised.
Finished(proc, outcome, pexpire) ==
    [proc EXCEPT !.pc = "done", !.outcome = outcome, !.pexpire = pexpire,
                 !.raised =
                    IF outcome # "deny" THEN NoException
                    ELSE IF proc.op = "ws"
                    THEN ws_default_callback(proc.request, pexpire)
                    ELSE http_default_callback(proc.request, pexpire)]

HistOf(key) == IF key \in DOMAIN hist THEN hist[key] ELSE <<>>

\* A script run as hist keeps it: the script, the limiter instance that
\* ran it, its reply, and the record it left under the key (0, 0: none).
Event(op, by, key, r) ==
    [op |-> op, by |-> by, ret |-> r.ret,
     count |-> IF key \in DOMAIN r.store THEN r.store[key].count ELSE 0,
     ttl |-> IF key \in DOMAIN r.store THEN r.store[key].ttl ELSE 0]

Logged(key, op, by, r) ==
    [k \in DOMAIN hist \cup {key} |->
        IF k = key THEN Append(HistOf(key), Event(op, by, key, r))
        ELSE hist[k]]

\* The values clients put in the place of a path parameter.
PathParams == {"1", "2"}

\* The request paths a route's path matches: the path itself, or for a
\* path ending in a parameter the paths with a value in its place.
compile_path(path) ==
    IF path = "/items/{item_id}" THEN {"/items/" \o v : v \in PathParams}
    ELSE IF path = "/users/{user_id}" THEN {"/users/" \o v : v \in PathParams}
    ELSE {path}

\* The routes the framework's matching accepts the request on.
Accepting(request) ==
    {i \in 1..Len(routes) :
        /\ request.path \in compile_path(routes[i].path)
        /\ request.method \in routes[i].methods}

\* The route the framework dispatches the request to: the first that
\* accepts its path and method.
Dispatched(request, i) ==
    /\ i \in Accepting(request)
    /\ \A h \in Accepting(request) : i <= h

\* FastAPILimiter.init, awaited in the application's lifespan.
FastAPILimiterInit ==
    /\ limiter.redis = None
    /\ limiter' = Initialized(lifespan)
    /\ scriptCache' = scriptCache \cup {ScriptSha(lua_script)}
    /\ UNCHANGED <<lifespan, routes, clients, refund_script_sha, store, procs,
                   last, hist, lapsed, ops, faults, flushes, connected>>

\* RateLimiter.__call__ from its entry to the await of _check: the bypass
\* block, the initialization test and the key.
CallEntry(self, request) ==
    LET proc == [Idle EXCEPT !.op = "call", !.self = self,
                             !.request = request]
    IN IF self.enable_bypass /\ "query_param_names" \notin DOMAIN limiter
       THEN Finished(proc, "AttributeError", 0)
       ELSE IF Bypassed(self, request)
       THEN Finished(proc, "admit", 0)
       ELSE IF limiter.redis = None
       THEN Finished(proc, "Exception", 0)
       ELSE [proc EXCEPT !.pc = "check", !.key = CallKey(self, request)]

\* The framework resolves a RateLimiter dependency of the route a request
\* is dispatched to.
StartCall(w) ==
    /\ Free(w)
    /\ \E request \in clients.requests, i \in 1..Len(routes) :
         /\ Dispatched(request, i)
         /\ \E j \in 1..Len(routes[i].dependencies) :
              /\ routes[i].dependencies[j].class = "RateLimiter"
              /\ Becomes(w, CallEntry(routes[i].dependencies[j], request))
    /\ ops' = ops - 1
    /\ UNCHANGED <<lifespan, routes, clients, limiter, refund_script_sha,
                   store, scriptCache, hist, lapsed, faults, flushes>>

\* WebSocketRateLimiter.__call__ from its entry to the await of _check.
WsEntry(self, ws, context_key) ==
    LET proc == [Idle EXCEPT !.op = "ws", !.self = self, !.request = ws,
                             !.context_key = context_key]
    IN IF limiter.redis = None
       THEN Finished(proc, "Exception", 0)
       ELSE [proc EXCEPT !.pc = "check",
                         !.key = WsKey(self, ws, context_key)]

\* A socket endpoint calls its WebSocketRateLimiter for a message.
StartWs(w) ==
    /\ Free(w)
    /\ \E m \in clients.messages :
         /\ m.ws \in connected
         /\ Becomes(w, WsEntry(m.self, m.ws, m.context_key))
    /\ ops' = ops - 1
    /\ UNCHANGED <<lifespan, routes, clients, limiter, refund_script_sha,
                   store, scriptCache, hist, lapsed, faults, flushes>>

\* RateLimiter._check: EVALSHA lua_sha 1 key times milliseconds runs the
\* script, and the caller acts on its reply: 0 returns, anything else goes
\* to the callback, which raises 429 with the reply as pexpire.
CheckRuns(w) ==
    LET proc == procs[w]
        r == CheckScript(store, proc.key, proc.self.times,
                         proc.self.milliseconds)
        sent == [proc EXCEPT !.evals = proc.evals + 1]
    IN /\ proc.pc \in {"check", "retry"}
       /\ limiter.lua_sha \in scriptCache
       /\ store' = r.store
       /\ hist' = Logged(proc.key, "check", proc.self.id, r)
       /\ Becomes(w,
             IF r.ret = Err THEN Finished(sent, "ResponseError", 0)
             ELSE IF r.ret # 0 THEN Finished(sent, "deny", r.ret)
             ELSE Finished(sent, "admit", 0))
       /\ UNCHANGED <<lifespan, routes, clients, limiter, refund_script_sha,
                      scriptCache, lapsed, ops, faults, flushes>>

\* EVALSHA of a SHA Redis does not hold raises NoScriptError: the first
\* _check of RateLimiter.__call__ is inside the try, its second one and
\* the one of WebSocketRateLimiter.__call__ are not.
CheckNoScript(w) ==
    LET proc == procs[w]
        sent == [proc EXCEPT !.evals = proc.evals + 1]
    IN /\ proc.pc \in {"check", "retry"}
       /\ limiter.lua_sha \notin scriptCache
       /\ Becomes(w,
             IF proc.pc = "check" /\ proc.op = "call"
             THEN [sent EXCEPT !.pc = "reload", !.caught = "NoScriptError"]
             ELSE Finished(sent, "NoScriptError", 0))
       /\ UNCHANGED <<lifespan, routes, clients, limiter, refund_script_sha,
                      store, scriptCache, hist, lapsed, ops, faults, flushes>>

\* The store command of _check fails (unreachable, timeout): any
\* exception that is no NoScriptError leaves __call__.
CheckFails(w) ==
    LET proc == procs[w]
        sent == [proc EXCEPT !.evals = proc.evals + 1]
    IN /\ proc.pc \in {"check", "retry"}
       /\ faults > 0
       /\ faults' = faults - 1
       /\ Becomes(w, Finished(sent, "ConnectionError", 0))
       /\ UNCHANGED <<lifespan, routes, clients, limiter, refund_script_sha,
                      store, scriptCache, hist, lapsed, ops, flushes>>

\* The except NoScriptError block: SCRIPT LOAD, lua_sha re-cached.
Reload(w) ==
    LET proc == procs[w] IN
    /\ proc.pc = "reload"
    /\ scriptCache' = scriptCache \cup {ScriptSha(lua_script)}
    /\ limiter' = [limiter EXCEPT !.lua_sha = ScriptSha(lua_script)]
    /\ Becomes(w,
          [proc EXCEPT !.pc = "retry", !.loads = proc.loads + 1])
    /\ UNCHANGED <<lifespan, routes, clients, refund_script_sha, store, hist,
                   lapsed, ops, faults, flushes>>

\* SCRIPT LOAD of the except block fails: the exception leaves __call__.
ReloadFails(w) ==
    LET proc == procs[w] IN
    /\ proc.pc = "reload"
    /\ faults > 0
    /\ faults' = faults - 1
    /\ Becomes(w,
          Finished([proc EXCEPT !.loads = proc.loads + 1],
                   "ConnectionError", 0))
    /\ UNCHANGED <<lifespan, routes, clients, limiter, refund_script_sha,
                   store, scriptCache, hist, lapsed, ops, flushes>>

----------------------------------------------------------------------------
(* refund_rate_limit_for_request (and mark_request_ignored, which awaits   *)
(* it first).                                                              *)

\* From the entry to the first await: nothing to do without a store handle
\* or without a RateLimiter on the first matching route.
RefundEntry(request) ==
    LET proc == [Idle EXCEPT !.op = "refund", !.request = request]
    IN IF limiter.redis = None
       THEN Finished(proc, "returned", 0)
       ELSE IF RefundKeys(request) = <<>>
       THEN Finished(proc, "returned", 0)
       ELSE [proc EXCEPT !.todo = RefundKeys(request),
                         !.pc = IF refund_script_sha = None THEN "r_load"
                                ELSE "r_eval"]

\* An endpoint awaits the refund of the request it is serving.
StartRefund(w) ==
    /\ Free(w)
    /\ \E request \in clients.requests :
         Becomes(w, RefundEntry(request))
    /\ ops' = ops - 1
    /\ UNCHANGED <<lifespan, routes, clients, limiter, refund_script_sha,
                   store, scriptCache, hist, lapsed, faults, flushes>>

\* if _refund_script_sha is None: SCRIPT LOAD.
RefundLoad(w) ==
    LET proc == procs[w] IN
    /\ proc.pc = "r_load"
    /\ refund_script_sha' = ScriptSha(refund_script)
    /\ scriptCache' = scriptCache \cup {ScriptSha(refund_script)}
    /\ Becomes(w,
          [proc EXCEPT !.pc = "r_eval", !.loads = proc.loads + 1])
    /\ UNCHANGED <<lifespan, routes, clients, limiter, store, hist, lapsed,
                   ops, faults, flushes>>

\* That SCRIPT LOAD is outside the try: its failure leaves the refund.
RefundLoadFails(w) ==
    LET proc == procs[w] IN
    /\ proc.pc = "r_load"
    /\ faults > 0
    /\ faults' = faults - 1
    /\ Becomes(w,
          Finished([proc EXCEPT !.loads = proc.loads + 1],
                   "ConnectionError", 0))
    /\ UNCHANGED <<lifespan, routes, clients, limiter, refund_script_sha,
                   store, scriptCache, hist, lapsed, ops, flushes>>

\* The handler after the refund script ran on the head of todo: the next
\* dependency of the route, or the end of the loop.
Refunded(proc) ==
    LET sent == [proc EXCEPT !.evals = proc.evals + 1,
                             !.key = Head(proc.todo),
                             !.todo = Tail(proc.todo)]
    IN IF Tail(proc.todo) = <<>>
       THEN Finished(sent, "returned", 0)
       ELSE [sent EXCEPT !.pc = "r_eval"]

\* EVALSHA _refund_script_sha 1 key runs the script (in the try, or in the
\* except block after the reload).
RefundRuns(w) ==
    LET proc == procs[w]
        r == RefundScript(store, Head(proc.todo))
    IN /\ proc.pc \in {"r_eval", "r_retry"}
       /\ refund_script_sha \in scriptCache
       /\ store' = r.store
       /\ hist' = Logged(Head(proc.todo), "refund", "", r)
       /\ Becomes(w, Refunded(proc))
       /\ UNCHANGED <<lifespan, routes, clients, limiter, refund_script_sha,
                      scriptCache, lapsed, ops, faults, flushes>>

\* EVALSHA of a SHA Redis does not hold: the bare except catches it in the
\* try; in the except block it leaves the refund.
RefundNoScript(w) ==
    LET proc == procs[w]
        sent == [proc EXCEPT !.evals = proc.evals + 1]
    IN /\ proc.pc \in {"r_eval", "r_retry"}
       /\ refund_script_sha \notin scriptCache
       /\ Becomes(w,
             IF proc.pc = "r_eval"
             THEN [sent EXCEPT !.pc = "r_reload", !.caught = "NoScriptError"]
             ELSE Finished(sent, "NoScriptError", 0))
       /\ UNCHANGED <<lifespan, routes, clients, limiter, refund_script_sha,
                      store, scriptCache, hist, lapsed, ops, faults, flushes>>

\* The store command fails: the bare except catches that too in the try;
\* in the except block it leaves the refund.
RefundFails(w) ==
    LET proc == procs[w]
        sent == [proc EXCEPT !.evals = proc.evals + 1]
    IN /\ proc.pc \in {"r_eval", "r_retry"}
       /\ faults > 0
       /\ faults' = faults - 1
       /\ Becomes(w,
             IF proc.pc = "r_eval"
             THEN [sent EXCEPT !.pc = "r_reload", !.caught = "ConnectionError"]
             ELSE Finished(sent, "ConnectionError", 0))
       /\ UNCHANGED <<lifespan, routes, clients, limiter, refund_script_sha,
                      store, scriptCache, hist, lapsed, ops, flushes>>

\* The except block: SCRIPT LOAD, _refund_script_sha re-cached.
RefundReload(w) ==
    LET proc == procs[w] IN
    /\ proc.pc = "r_reload"
    /\ refund_script_sha' = ScriptSha(refund_script)
    /\ scriptCache' = scriptCache \cup {ScriptSha(refund_script)}
    /\ Becomes(w,
          [proc EXCEPT !.pc = "r_retry", !.loads = proc.loads + 1])
    /\ UNCHANGED <<lifespan, routes, clients, limiter, store, hist, lapsed,
                   ops, faults, flushes>>

RefundReloadFails(w) ==
    LET proc == procs[w] IN
    /\ proc.pc = "r_reload"
    /\ faults > 0
    /\ faults' = faults - 1
    /\ Becomes(w,
          Finished([proc EXCEPT !.loads = proc.loads + 1],
                   "ConnectionError", 0))
    /\ UNCHANGED <<lifespan, routes, clients, limiter, refund_script_sha,
                   store, scriptCache, hist, lapsed, ops, flushes>>

----------------------------------------------------------------------------
(* Redis on its own: time passes, the script cache is flushed.             *)

\* One millisecond: records at their last millisecond expire.
Tick ==
    /\ DOMAIN store # {}
    /\ store' = Elapse(store)
    /\ lapsed' = [k \in DOMAIN lapsed \cup Expiring(store) |->
                     IF k \in Expiring(store) THEN store[k].count
                     ELSE lapsed[k]]
    /\ hist' = [k \in DOMAIN hist \ Expiring(store) |-> hist[k]]
    /\ UNCHANGED <<lifespan, routes, clients, limiter, refund_script_sha,
                   scriptCache, procs, last, ops, faults, flushes, connected>>

\* SCRIPT FLUSH or a restart of Redis: the cached scripts are gone.
ScriptFlush ==
    /\ scriptCache # {}
    /\ flushes > 0
    /\ flushes' = flushes - 1
    /\ scriptCache' = {}
    /\ UNCHANGED <<lifespan, routes, clients, limiter, refund_script_sha,
                   store, procs, last, hist, lapsed, ops, faults, connected>>

----------------------------------------------------------------------------
(* The applications and clients explored.                                  *)

\* One route guarded by one RateLimiter(times, milliseconds).
QuotaRoutes(times, milliseconds) ==
    << Route("/", {"GET"},
             <<RateLimiter("index", times, milliseconds, 0, 0, 0, None,
                           FALSE)>>) >>

\* An application in the manner of examples/main.py, with windows of a few
\* milliseconds: a plain route, a route with two limiters, a route with a
\* bypass-enabled limiter behind another dependency, a route whose limiter
\* has its own identifier, a route without a limiter, and two routes with a
\* path parameter whose limiters identify the caller by the user.
DemoRoutes ==
    << Route("/", {"GET"},
             <<RateLimiter("index", 2, 2, 0, 0, 0, None, FALSE)>>),
       Route("/multiple", {"GET"},
             <<RateLimiter("burst", 1, 1, 0, 0, 0, None, FALSE),
               RateLimiter("sustained", 2, 2, 0, 0, 0, None, FALSE)>>),
       Route("/bypass", {"GET"},
             <<OtherDependency("security"),
               RateLimiter("bypass", 1, 2, 0, 0, 0, None, TRUE)>>),
       Route("/me", {"GET"},
             <<RateLimiter("me", 1, 2, 0, 0, 0, "user_identifier", FALSE)>>),
       Route("/health", {"GET"}, <<OtherDependency("security")>>),
       Route("/items/{item_id}", {"GET"},
             <<RateLimiter("items", 1, 2, 0, 0, 0, "user_identifier",
                           FALSE)>>),
       Route("/users/{user_id}", {"GET"},
             <<RateLimiter("users", 1, 2, 0, 0, 0, "user_identifier",
                           FALSE)>>) >>

DemoInitArgs ==
    InitArgs("fastapi-limiter", "default_identifier",
             <<"secrets_bypass_password">>, <<"password">>, <<"bearer">>,
             <<"X-API-Key">>)

Get_(path, query, headers) ==
    Request(path, "GET", "10.0.0.1", <<>>, query, headers, "alice")

Message(self, context_key) ==
    [self |-> self, context_key |-> context_key,
     ws |-> Request("/ws", "", "10.0.0.1", <<>>, {}, {}, "alice")]

SocketLimiter == WebSocketRateLimiter("ws", 1, 2, None)

Clients(requests, messages) == [requests |-> requests, messages |-> messages]

\* An application, its clients and what the exploration allows them.
Scenario(args, table, population, handlers, failures, lost) ==
    [lifespan |-> args, routes |-> table, clients |-> population,
     ops |-> handlers, faults |-> failures, flushes |-> lost]

\* Every quota of the bounds, one caller.
QuotaScenarios ==
    {Scenario(DefaultInitArgs, QuotaRoutes(times, milliseconds),
              Clients({Get_("/", {}, {})}, {}), MaxOps, 0, 0) :
        times \in 0..MaxLimit, milliseconds \in 0..MaxWindow}

\* The populations of clients the demo application is explored under.
DemoPopulations ==
    { Clients({Get_("/multiple", {}, {})}, {}),
      Clients({Get_("/bypass", {}, {}),
               Get_("/bypass", {<<"password", "secrets_bypass_password">>},
                    {})}, {}),
      Clients({Get_("/bypass", {}, {}),
               Get_("/bypass", {},
                    {<<"bearer", "secrets_bypass_password">>})}, {}),
      Clients({Get_("/bypass", {}, {}),
               Get_("/bypass", {},
                    {<<"X-API-Key", "secrets_bypass_password">>})}, {}),
      Clients({Get_("/me", {}, {})}, {}),
      Clients({Get_("/health", {}, {}), Get_("/items/1", {}, {}),
               Get_("/users/1", {}, {})}, {}),
      Clients({}, {Message(SocketLimiter, "chat"),
                   Message(SocketLimiter, "ping")}) }

\* The demo application against a store that may fail and lose scripts.
DemoScenarios ==
    {Scenario(DemoInitArgs, DemoRoutes, population, MaxDemoOps, MaxFaults,
              MaxFlushes) : population \in DemoPopulations}

\* The demo application against a store that answers every command.
QuietDemoScenarios ==
    {Scenario(DemoInitArgs, DemoRoutes, population, MaxDemoOps, 0, 0) :
        population \in DemoPopulations}

\* The process as its modules are imported: nothing initialized, Redis
\* empty.
Imported(scenarios) ==
    /\ \E s \in scenarios :
         /\ lifespan = s.lifespan
         /\ routes = s.routes
         /\ clients = s.clients
         /\ ops = s.ops
         /\ faults = s.faults
         /\ flushes = s.flushes
    /\ refund_script_sha = None
    /\ store = <<>>
    /\ procs = [w \in Workers |-> Idle]
    /\ last = Idle
    /\ hist = <<>>
    /\ lapsed = <<>>
    /\ connected = {m.ws : m \in clients.messages}

\* The application serving: its lifespan has awaited FastAPILimiter.init
\* before the first request.
Serving(scenarios) ==
    /\ Imported(scenarios)
    /\ limiter = Initialized(lifespan)
    /\ scriptCache = {ScriptSha(lua_script)}

\* Checks, refunds and expiry against a store that answers every command.
NextQuota ==
    \/ Tick
    \/ \E w \in Workers :
         \/ StartCall(w)
         \/ StartRefund(w)
         \/ CheckRuns(w)
         \/ RefundLoad(w)
         \/ RefundRuns(w)

InitQuota == Serving(QuotaScenarios)

SpecQuota == InitQuota /\ [][NextQuota]_vars

\* The demo application's handlers against a store that answers every
\* command.
NextDemo ==
    \/ Tick
    \/ \E w \in Workers :
         \/ StartCall(w)
         \/ StartWs(w)
         \/ StartRefund(w)
         \/ CheckRuns(w)
         \/ RefundLoad(w)
         \/ RefundRuns(w)

InitDemo == Serving(QuietDemoScenarios)

SpecDemo == InitDemo /\ [][NextDemo]_vars

\* Quotas of one request per window, the window given in seconds and
\* milliseconds and within a millisecond of a whole number of seconds: one
\* HTTP caller and one socket caller.
RetryScenarios ==
    {Scenario(DefaultInitArgs,
              <<Route("/", {"GET"},
                      <<RateLimiter("index", 1, q.milliseconds, q.seconds, 0,
                                    0, None, FALSE)>>)>>,
              Clients({Get_("/", {}, {})},
                      {Message(WebSocketRateLimiter("ws", 1,
                                  q.milliseconds + 1000 * q.seconds, None),
                               "chat")}),
              MaxRetryOps, 0, 0) :
        q \in {q \in [seconds : 0..MaxSeconds, milliseconds : {0 - 1, 0, 1}] :
                  q.milliseconds + 1000 * q.seconds >= 1}}

\* The application at some millisecond of a window both callers have opened
\* and used up: each key holds count 1 (left by the check that its window's
\* history starts with) and the window's remaining milliseconds.
InitRetry ==
    /\ \E s \in RetryScenarios :
         /\ lifespan = s.lifespan
         /\ routes = s.routes
         /\ clients = s.clients
         /\ ops = s.ops
         /\ faults = s.faults
         /\ flushes = s.flushes
    /\ limiter = Initialized(lifespan)
    /\ scriptCache = {ScriptSha(lua_script)}
    /\ refund_script_sha = None
    /\ procs = [w \in Workers |-> Idle]
    /\ last = Idle
    /\ lapsed = <<>>
    /\ connected = {m.ws : m \in clients.messages}
    /\ \E request \in clients.requests, m \in clients.messages :
         LET self == routes[1].dependencies[1]
             W == self.milliseconds
             keys == {CallKey(self, request),
                      WsKey(m.self, m.ws, m.context_key)}
             opened == [k \in keys |-> [count |-> 1, ttl |-> W]]
         IN \E pttl \in 1..W :
              /\ store = [k \in keys |-> [count |-> 1, ttl |-> pttl]]
              /\ hist = [k \in keys |->
                            <<Event("check",
                                    IF k = CallKey(self, request)
                                    THEN self.id ELSE m.self.id,
                                    k, [ret |-> 0, store |-> opened])>>]

\* Checks of both kinds on windows of seconds, at every millisecond of the
\* window InitRetry starts in.
NextRetry ==
    \/ \E w \in Workers :
         \/ StartCall(w)
         \/ StartWs(w)
         \/ CheckRuns(w)

SpecRetry == InitRetry /\ [][NextRetry]_vars

\* The demo application from the import of its modules: handlers may run
\* before FastAPILimiter.init has been awaited, and after.
NextStartup ==
    \/ FastAPILimiterInit
    \/ Tick
    \/ \E w \in Workers :
         \/ StartCall(w)
         \/ StartWs(w)
         \/ StartRefund(w)
         \/ CheckRuns(w)
         \/ RefundLoad(w)
         \/ RefundRuns(w)

InitStartup ==
    /\ Imported(QuietDemoScenarios)
    /\ limiter = FastAPILimiterClass
    /\ scriptCache = {}

SpecStartup == InitStartup /\ [][NextStartup]_vars

\* Every handler, against a store that may fail commands and lose its
\* script cache.
Next ==
    \/ Tick
    \/ ScriptFlush
    \/ \E w \in Workers :
         \/ StartCall(w)
         \/ StartWs(w)
         \/ StartRefund(w)
         \/ CheckRuns(w)
         \/ CheckNoScript(w)
         \/ CheckFails(w)
         \/ Reload(w)
         \/ ReloadFails(w)
         \/ RefundLoad(w)
         \/ RefundLoadFails(w)
         \/ RefundRuns(w)
         \/ RefundNoScript(w)
         \/ RefundFails(w)
         \/ RefundReload(w)
         \/ RefundReloadFails(w)

Init == Serving(DemoScenarios)

Spec == Init /\ [][Next]_vars

----------------------------------------------------------------------------
(* What the claims speak of.                                               *)

DepPositions == UNION {DOMAIN routes[i].dependencies : i \in DOMAIN routes}

\* The calls of a RateLimiter the clients can cause: a request, the route
\* it is dispatched to and the position of the limiter on that route.
LimiterCalls ==
    {c \in [request : clients.requests, i : DOMAIN routes, j : DepPositions] :
        /\ Dispatched(c.request, c.i)
        /\ c.j \in DOMAIN routes[c.i].dependencies
        /\ routes[c.i].dependencies[c.j].class = "RateLimiter"}

SelfOf(c) == routes[c.i].dependencies[c.j]

KeyOf(c) == CallKey(SelfOf(c), c.request)

Checks(h) == {n \in DOMAIN h : h[n].op = "check"}

Admitted(h) == {n \in Checks(h) : h[n].ret = 0}

Refunds(h) == {n \in DOMAIN h : h[n].op = "refund"}

Decrements(h) == {n \in Refunds(h) : h[n].ret > 0}

Min(a, b) == IF a <= b THEN a ELSE b

\* C1 as stated, for every quota of the data model: on a key without
\* refunds, the first L checks of a window are admitted and check L+1 is
\* denied with a remaining time in 1..W.
C1_EveryQuota ==
    \A c \in LimiterCalls :
        LET h == HistOf(KeyOf(c))
            L == SelfOf(c).times
            W == SelfOf(c).milliseconds
        IN Refunds(h) = {} =>
             \A n \in DOMAIN h :
                /\ n <= L => h[n].ret = 0
                /\ n = L + 1 => h[n].ret > 0 /\ h[n].ret <= W

\* C1 (amended): for every quota with L >= 1 and W >= 1, on a key without
\* refunds, the first L checks of a window are admitted and check L+1 is
\* denied with a remaining time in 1..W.
C1_FirstLAdmitted ==
    \A c \in LimiterCalls :
        LET h == HistOf(KeyOf(c))
            L == SelfOf(c).times
            W == SelfOf(c).milliseconds
        IN L >= 1 /\ W >= 1 /\ Refunds(h) = {} =>
             \A n \in DOMAIN h :
                /\ n <= L => h[n].ret = 0
                /\ n = L + 1 => h[n].ret > 0 /\ h[n].ret <= W

\* A window of a quota with L >= 2 in which check L+1 was denied.
C1_Witness ==
    \E c \in LimiterCalls :
        LET h == HistOf(KeyOf(c))
            L == SelfOf(c).times
        IN /\ L >= 2
           /\ Refunds(h) = {}
           /\ Len(h) = L + 1
           /\ h[L + 1].ret > 0

\* C2: within one window without refunds, under every interleaving of the
\* workers' checks on a key with quota L >= 1, the number of admitted
\* checks is min(N, L), N the number of checks run in the window.
C2_AdmittedIsMinNL ==
    \A c \in LimiterCalls :
        LET h == HistOf(KeyOf(c))
            L == SelfOf(c).times
        IN L >= 1 /\ KeyOf(c) \in DOMAIN store /\ Refunds(h) = {} =>
             Cardinality(Admitted(h)) = Min(Len(h), L)

\* L+1 checks ran in the window, L of them admitted, while another
\* worker's check on the same key is still in flight.
C2_Witness ==
    \E c \in LimiterCalls, w \in Workers :
        LET h == HistOf(KeyOf(c))
            L == SelfOf(c).times
        IN /\ L >= 1
           /\ KeyOf(c) \in DOMAIN store
           /\ Refunds(h) = {}
           /\ Len(h) = L + 1
           /\ Cardinality(Admitted(h)) = L
           /\ procs[w].pc = "check"
           /\ procs[w].key = KeyOf(c)

\* C4: on a key with quota L >= 1 charged k >= 1 times and then refunded
\* once, the checks that follow in the window are admitted exactly up to
\* the (L - k + 1)-th; the next one is denied.
C4_RefundRestoresOne ==
    \A c \in LimiterCalls :
        LET h == HistOf(KeyOf(c))
            L == SelfOf(c).times
        IN \A r \in DOMAIN h :
             LET k == Cardinality(Admitted(SubSeq(h, 1, r - 1)))
             IN L >= 1 /\ Refunds(h) = {r} /\ k >= 1 =>
                  \A n \in (r + 1)..Len(h) :
                     h[n].ret = 0 <=> n - r <= L - k + 1

\* k charges, one refund, L - k + 1 admitted checks and then a denial.
C4_Witness ==
    \E c \in LimiterCalls :
        LET h == HistOf(KeyOf(c))
            L == SelfOf(c).times
        IN \E r \in DOMAIN h :
             LET k == Cardinality(Admitted(SubSeq(h, 1, r - 1)))
             IN /\ L >= 1
                /\ Refunds(h) = {r}
                /\ k >= 1
                /\ Len(h) = r + (L - k + 1) + 1
                /\ h[Len(h)].ret > 0

\* C5: the stored count is never negative: it is the admitted checks of the
\* record's lifetime less the refunds that found a count above zero, every
\* script leaves a count >= 0, and a refund that finds zero (or no record)
\* leaves zero (or no record).
C5_CountNeverNegative ==
    \A k \in DOMAIN store \cup DOMAIN hist :
        LET h == HistOf(k) IN
        /\ RedisGet(store, k) >= 0
        /\ RedisGet(store, k)
             = Cardinality(Admitted(h)) - Cardinality(Decrements(h))
        /\ \A n \in DOMAIN h : h[n].count >= 0
        /\ \A n \in Refunds(h) : h[n].ret = 0 => h[n].count = 0

\* A refund found the count at zero right after another refund.
C5_Witness ==
    \E k \in DOMAIN hist :
        \E n \in Refunds(hist[k]) :
            /\ n > 1
            /\ hist[k][n].ret = 0
            /\ hist[k][n - 1].op = "refund"
            /\ hist[k][n - 1].ret > 0

\* C6: once a key's record has expired, the next check on the key is
\* admitted and leaves a record of count 1 that expires in W, whatever the
\* expired record's count was.
C6_FreshAfterExpiry ==
    \A c \in LimiterCalls :
        LET h == HistOf(KeyOf(c))
            W == SelfOf(c).milliseconds
        IN \A n \in Checks(h) :
             KeyOf(c) \in DOMAIN lapsed /\ Checks(h) \cap 1..(n - 1) = {} =>
                h[n].ret = 0 /\ h[n].count = 1 /\ h[n].ttl = W

\* A record expired at its limit and the key was checked again.
C6_Witness ==
    \E c \in LimiterCalls :
        LET h == HistOf(KeyOf(c))
            L == SelfOf(c).times
        IN /\ L >= 1
           /\ KeyOf(c) \in DOMAIN lapsed
           /\ lapsed[KeyOf(c)] = L
           /\ Checks(h) # {}

\* Some configured bypass source of the request holds an authorized value:
\* a query parameter, a bearer-token header or an api-key header, each
\* under its configured name.
CarriesCredential(request) ==
    \/ \E param \in Range(limiter.query_param_names) :
          Authorized(hash_input(Get(request.query, param, "")))
    \/ \E header \in Range(limiter.bearer_token_headers) :
          Authorized(hash_input(Get(request.headers, header, "")))
    \/ \E header \in Range(limiter.api_key_headers) :
          Authorized(hash_input(Get(request.headers, header, "")))

Handlers == {procs[w] : w \in Workers} \cup {last}

\* C3 as stated: a call of a bypass-enabled limiter for a request that
\* carries an authorized credential in a configured source issues no store
\* command and is admitted.
C3_BypassNeverCharges ==
    \A x \in Handlers :
        x.op = "call" /\ x.self.enable_bypass /\ CarriesCredential(x.request)
          => x.pc = "done" /\ x.outcome = "admit" /\ x.evals = 0 /\ x.loads = 0

\* C7 as stated: the key a refund for a request decremented is the key a
\* RateLimiter of the request's route charges for that request.
C7_RefundKeyIsChargeKey ==
    last.op = "refund" /\ last.key # None =>
        \E c \in LimiterCalls :
            c.request = last.request /\ KeyOf(c) = last.key

\* C8 as stated: a check handler (HTTP or socket) that ends with the
\* store's script-not-found error has reloaded the script once and sent the
\* check twice.
C8_ReloadAndRetryOnce ==
    last.op \in {"call", "ws"} /\ last.outcome = "NoScriptError" =>
        last.loads = 1 /\ last.evals = 2

\* C9 as stated: a handler one of whose store commands failed with an error
\* other than script-not-found ends with that error, without a retry.
C9_StoreErrorsSurface ==
    last.caught = "ConnectionError" =>
        last.outcome = "ConnectionError" /\ last.evals = 1

\* The count a key's record held before the n-th script run of h.
CountBefore(h, n) ==
    Cardinality(Admitted(SubSeq(h, 1, n - 1)))
      - Cardinality(Decrements(SubSeq(h, 1, n - 1)))

C16_ZeroLimit ==
    \A c \in LimiterCalls :
        LET h == HistOf(KeyOf(c))
            W == SelfOf(c).milliseconds
        IN SelfOf(c).times = 0 =>
             \A n \in Checks(h) :
                IF Checks(h) \cap 1..(n - 1) = {}
                THEN h[n].ret = 0 /\ h[n].count = 1 /\ h[n].ttl = W
                ELSE h[n].ret > 0

\* C16 (amended): on a key with limit 0 and a window W >= 1, the first
\* check of a window is admitted and leaves count 1 expiring in W, and
\* every later check of the window is denied as long as no refund has
\* taken the count back down.
C16_ZeroLimitUnrefunded ==
    \A c \in LimiterCalls :
        LET h == HistOf(KeyOf(c))
            W == SelfOf(c).milliseconds
        IN SelfOf(c).times = 0 /\ W >= 1 =>
             \A n \in Checks(h) :
                /\ Checks(h) \cap 1..(n - 1) = {} =>
                      h[n].ret = 0 /\ h[n].count = 1 /\ h[n].ttl = W
                /\ /\ Checks(h) \cap 1..(n - 1) # {}
                   /\ Decrements(SubSeq(h, 1, n - 1)) = {}
                   => h[n].ret > 0

\* A window of a limit-0 key: its first check admitted, two more denied.
C16_Witness ==
    \E c \in LimiterCalls :
        LET h == HistOf(KeyOf(c))
        IN /\ SelfOf(c).times = 0
           /\ SelfOf(c).milliseconds >= 1
           /\ Refunds(h) = {}
           /\ Len(h) = 3
           /\ h[1].ret = 0 /\ h[1].count = 1
           /\ h[2].ret > 0 /\ h[3].ret > 0

\* C17: a check that finds a count above zero with no room under the limit
\* is denied, leaves the whole keyspace as it was (the key's count and
\* expiry included), and hands the callback the time-to-live the record
\* has at that moment.
C17_DeniedCheckChangesNothing ==
    [][\A w \in Workers :
          LET key == procs[w].key
              current == RedisGet(store, key)
          IN /\ CheckRuns(w)
             /\ current > 0
             /\ current + 1 > procs[w].self.times
             => /\ store' = store
                /\ last'.outcome = "deny"
                /\ last'.pexpire = store[key].ttl]_vars

\* A check was denied on a record one millisecond into its window, and the
\* record still holds its count with the time-to-live the denial reported.
C17_Witness ==
    /\ last.op = "call"
    /\ last.outcome = "deny"
    /\ last.key \in DOMAIN store
    /\ store[last.key].count = last.self.times
    /\ store[last.key].ttl = last.pexpire
    /\ last.pexpire < last.self.milliseconds
    /\ \E n \in Checks(HistOf(last.key)) : HistOf(last.key)[n].ret > 0

\* C18: a script run changes a record's expiry only when it is a check
\* that reads a count of 0 (no record, or a record refunded to 0): that
\* check is admitted and leaves count 1 expiring in W.  Every other check
\* and every refund leaves each record's expiry, and the set of records,
\* as it was.  So after a charge and a refund the next check restarts the
\* window at the full W.
C18_ExpirySetOnlyByFreshCharge ==
    [][\A w \in Workers :
          /\ CheckRuns(w) =>
                LET key == procs[w].key
                    W == procs[w].self.milliseconds
                IN IF RedisGet(store, key) = 0 /\ W >= 1
                   THEN /\ last'.outcome = "admit"
                        /\ store'[key] = [count |-> 1, ttl |-> W]
                        /\ \A k \in DOMAIN store \ {key} : store'[k] = store[k]
                   ELSE /\ DOMAIN store' = DOMAIN store
                        /\ \A k \in DOMAIN store : store'[k].ttl = store[k].ttl
          /\ RefundRuns(w) =>
                /\ DOMAIN store' = DOMAIN store
                /\ \A k \in DOMAIN store : store'[k].ttl = store[k].ttl]_vars

\* One charge, a millisecond, one refund that left count 0 with the rest of
\* the window, and a check that set count 1 with the full W again.
C18_Witness ==
    \E c \in LimiterCalls :
        LET h == HistOf(KeyOf(c))
            W == SelfOf(c).milliseconds
        IN /\ Len(h) = 3
           /\ h[1].op = "check" /\ h[1].ret = 0 /\ h[1].ttl = W
           /\ h[2].op = "refund" /\ h[2].ret = 1 /\ h[2].count = 0
           /\ h[2].ttl < W
           /\ h[3].op = "check" /\ h[3].ret = 0
           /\ h[3].count = 1 /\ h[3].ttl = W

Max(a, b) == IF a >= b THEN a ELSE b

\* C20: whatever the workers' checks and refunds on a key interleave to,
\* the count stored under the key never exceeds max(L, 1), L the limit of
\* the limiter that charges the key; nor did any script run ever leave
\* more.
C20_CountAtMostLimit ==
    \A c \in LimiterCalls :
        LET L == SelfOf(c).times
            h == HistOf(KeyOf(c))
        IN /\ RedisGet(store, KeyOf(c)) <= Max(L, 1)
           /\ \A n \in DOMAIN h : h[n].count <= Max(L, 1)

\* The count stands at the limit L >= 2 again after a refund had taken it
\* down, and a further check has been denied.
C20_Witness ==
    \E c \in LimiterCalls :
        LET L == SelfOf(c).times
            h == HistOf(KeyOf(c))
        IN /\ L >= 2
           /\ RedisGet(store, KeyOf(c)) = L
           /\ Decrements(h) # {}
           /\ h[Len(h)].op = "check" /\ h[Len(h)].ret > 0

MessageKey(m) == WsKey(m.self, m.ws, m.context_key)

\* C12: for a WebSocketRateLimiter with limit 1 and window W, the first
\* message of a window under a contextKey is admitted and every further
\* one is denied with the record's remaining milliseconds (in 1..W), the
\* record staying at count 1; a denial is the socket callback's exception
\* for those milliseconds and leaves the socket in its message loop; and
\* messages with different contextKeys are counted under different keys,
\* each key holding the admitted messages of its own contextKey only.
C12_SocketMessages ==
    /\ \A m \in clients.messages :
          LET h == HistOf(MessageKey(m))
              W == m.self.milliseconds
          IN /\ m.self.times = 1 =>
                   \A n \in DOMAIN h :
                      /\ h[n].op = "check" /\ h[n].by = m.self.id
                      /\ n = 1 => h[n].ret = 0 /\ h[n].count = 1
                      /\ n > 1 => /\ h[n].ret \in 1..W
                                  /\ h[n].ret = h[n].ttl
                                  /\ h[n].count = 1
             /\ RedisGet(store, MessageKey(m)) = Cardinality(Admitted(h))
             /\ \A o \in clients.messages :
                   o.context_key # m.context_key =>
                      MessageKey(o) # MessageKey(m)
    /\ last.op = "ws" /\ last.outcome = "deny" =>
          /\ last.raised = ws_default_callback(last.request, last.pexpire)
          /\ last.pexpire \in 1..last.self.milliseconds
          /\ last.request \in connected

\* Two messages under one contextKey were admitted and denied, and then a
\* message of the same socket under another contextKey was evaluated and
\* admitted on its own counter.
C12_Witness ==
    \E m \in clients.messages, o \in clients.messages :
        LET h == HistOf(MessageKey(m)) IN
        /\ m.self.times = 1
        /\ o.ws = m.ws /\ o.context_key # m.context_key
        /\ Len(h) = 2 /\ h[1].ret = 0 /\ h[2].ret > 0
        /\ last.op = "ws" /\ last.outcome = "admit"
        /\ last.key = MessageKey(o)
        /\ Len(HistOf(MessageKey(o))) = 1
        /\ RedisGet(store, MessageKey(m)) = 1
        /\ RedisGet(store, MessageKey(o)) = 1
        /\ m.ws \in connected

\* C15: a denial with remaining milliseconds p under a window W raises the
\* default callback's exception with Retry-After the decimal string of the
\* smallest integer s with 1000*s >= p; s >= 1, and s is at most the
\* ceiling of W / 1000 (that is, 1000 * (s - 1) < W).
C15_RetryAfterIsCeiling ==
    last.outcome = "deny" =>
        LET p == last.pexpire
            W == last.self.milliseconds
        IN /\ p \in 1..W
           /\ last.raised.status_code = 429
           /\ \E s \in 1..(MaxSeconds + 1) :
                 /\ last.raised.headers = {<<"Retry-After", ToString(s)>>}
                 /\ 1000 * s >= p
                 /\ 1000 * (s - 1) < p
                 /\ 1000 * (s - 1) < W

\* Denials one millisecond either side of a whole second: 1001 ms left
\* gave Retry-After 2 on a socket, or 999 ms left gave 1 on a route.
C15_Witness ==
    /\ last.outcome = "deny"
    /\ \/ /\ last.op = "ws"
          /\ last.pexpire = 1001
          /\ last.raised.headers = {<<"Retry-After", "2">>}
       \/ /\ last.op = "call"
          /\ last.pexpire = 999
          /\ last.raised.headers = {<<"Retry-After", "1">>}

\* C11 as stated: for one caller, the limiters of two different routes
\* charge different keys, and the checks a key's window records are those
\* of its own route's limiter: none of the other route's.
C11_EndpointsIndependent ==
    \A c \in LimiterCalls, d \in LimiterCalls :
        /\ c.i # d.i
        /\ c.request.host = d.request.host
        /\ c.request.user = d.request.user
        => /\ KeyOf(c) # KeyOf(d)
           /\ \A n \in Checks(HistOf(KeyOf(c))) :
                 HistOf(KeyOf(c))[n].by = SelfOf(c).id

\* The refund has nothing to reverse for the request: the store handle is
\* not set, or no route's declared path and methods are the request's, or
\* the first such route has no RateLimiter among its dependencies.
NoRefundTarget(request) ==
    \/ limiter.redis = None
    \/ MatchingRoutes(request) = {}
    \/ \A j \in DOMAIN routes[SetMin(MatchingRoutes(request))].dependencies :
          routes[SetMin(MatchingRoutes(request))].dependencies[j].class
             # "RateLimiter"

\* C13: a refund that has nothing to reverse returns at once, without an
\* exception and without a store command, and leaves the keyspace, the
\* script cache and the cached refund SHA as they were.
C13_RefundWithoutTargetIsNoOp ==
    [][\A w \in Workers, request \in clients.requests :
          /\ Free(w)
          /\ ops' = ops - 1
          /\ Becomes(w, RefundEntry(request))
          /\ NoRefundTarget(request)
          => /\ procs'[w] = Idle
             /\ last'.op = "refund"
             /\ last'.outcome = "returned"
             /\ last'.evals = 0 /\ last'.loads = 0
             /\ store' = store
             /\ scriptCache' = scriptCache
             /\ refund_script_sha' = refund_script_sha]_vars

\* After init, with a counter charged, a refund for a request on a route
\* with a path parameter (no route's declared path is the request's) has
\* returned and the counter still holds the charge.
C13_Witness ==
    /\ limiter.redis # None
    /\ last.op = "refund"
    /\ last.outcome = "returned"
    /\ last.evals = 0
    /\ MatchingRoutes(last.request) = {}
    /\ \E k \in DOMAIN store : store[k].count = 1

\* C14 as stated: a check, HTTP or socket, made while init() has not set
\* the store handle ends with the configuration error (the Exception that
\* asks for FastAPILimiter.init), with no store command sent; it is not an
\* admit, a denial or some other error.
C14_UninitializedIsConfigurationError ==
    \A x \in Handlers :
        limiter.redis = None /\ x.op \in {"call", "ws"} =>
            /\ x.pc = "done"
            /\ x.outcome = "Exception"
            /\ x.evals = 0 /\ x.loads = 0

\* The bypass-enabled limiters of the route the request is dispatched to
\* let it pass on its credentials: no limiter of the route charges it.
AdmittedByBypass(request) ==
    /\ \E c \in LimiterCalls : c.request = request
    /\ \A c \in LimiterCalls :
          c.request = request => Bypassed(SelfOf(c), request)

\* C19 as stated, in its particular case: a refund for a request that the
\* credential bypass admits, and that therefore was never charged, leaves
\* every counter as it was.
C19_RefundOnlyOwnCharge ==
    [][\A w \in Workers :
          RefundRuns(w) /\ AdmittedByBypass(procs[w].request)
             => store' = store]_vars

====
